---- MODULE Spec2Model ----
(***************************************************************************)
(* Model of the dialer backend: the business-record store, CSV ingestion,  *)
(* the bulk caller (call-all) and the three revisions of the call-handler  *)
(* webhook (pattern matching, reasoning service with record updates,       *)
(* reasoning service with generated audio).                                *)
(*                                                                         *)
(* Strings that the code inspects character by character (phone numbers,   *)
(* transcripts) are sequences of one-character strings.  Fixed spoken      *)
(* lines are atoms.  JavaScript's undefined / null / value distinction is  *)
(* kept with tagged tuples.                                                *)
(***************************************************************************)
EXTENDS Integers, Sequences, FiniteSets, TLC

VARIABLES
    rev,      \* which revision of the router is deployed (1, 2 or 3)
    db,       \* the Business table: id -> record
    nextId,   \* next primary key the store hands out
    now,      \* the clock read by new Date()
    last,     \* the request handled last: endpoint, request, what it did, response
    ca        \* the call-all invocation in flight: pc, records read, placements

vars == <<rev, db, nextId, now, last, ca>>

----------------------------------------------------------------------------
(* Bounds of the model *)

MaxId == 2        \* at most this many records are ever created
MaxClock == 2     \* the clock takes values 1..MaxClock
MaxRows == 2      \* rows in one uploaded file
MaxRun == 3       \* consecutive silent turns followed within one call
MaxDigits == 12   \* digits in a phone string given to the normaliser
MaxWords == 2     \* words in a generated transcript

----------------------------------------------------------------------------
(* JavaScript values *)

Undefined == <<"undefined">>
JsNull == <<"null">>
Val(v) == <<"val", v>>
IsVal(x) == Len(x) = 2
Get(x) == x[2]

\* !x for a string, and x || "" : undefined and "" are both falsy
Falsy(s) == s = Undefined \/ s = Val(<<>>)
OrEmpty(s) == IF Falsy(s) THEN <<>> ELSE Get(s)
\* if (x) for a boolean-or-undefined value
Truthy(b) == IsVal(b) /\ Get(b) = TRUE

----------------------------------------------------------------------------
(* Characters *)

Digits == {"0", "1", "2", "3", "4", "5", "6", "7", "8", "9"}
IsDigit(c) == c \in Digits
Spaces == {" "}
IsSpace(c) == c \in Spaces

Uppers == <<"A","B","C","D","E","F","G","H","I","J","K","L","M",
            "N","O","P","Q","R","S","T","U","V","W","X","Y","Z">>
Lowers == <<"a","b","c","d","e","f","g","h","i","j","k","l","m",
            "n","o","p","q","r","s","t","u","v","w","x","y","z">>
IsUpper(c) == \E i \in 1..26 : Uppers[i] = c
\* the regular-expression class \w
WordChars ==
    {Uppers[i] : i \in 1..26} \cup {Lowers[i] : i \in 1..26} \cup Digits \cup {"_"}
LowerChar(c) == IF IsUpper(c) THEN Lowers[CHOOSE i \in 1..26 : Uppers[i] = c] ELSE c
ToLower(s) == [i \in 1..Len(s) |-> LowerChar(s[i])]

\* s has literal lit at position i
MatchAt(s, i, lit) ==
    /\ i >= 1
    /\ i + Len(lit) - 1 <= Len(s)
    /\ \A k \in 1..Len(lit) : s[i + k - 1] = lit[k]
Contains(s, lit) == \E i \in 1..(Len(s) + 1) : MatchAt(s, i, lit)

----------------------------------------------------------------------------
(* Phone numbers *)

\* phone.replace(/\D/g, "")
StripNonDigits(phone) == SelectSeq(phone, IsDigit)

standardizePhoneNumber_dropPrefix(phone) ==
    LET digits == StripNonDigits(phone)
    IN  <<"+">> \o digits

standardizePhoneNumber_alwaysPrefix(phone) ==
    LET digits == StripNonDigits(phone)
    IN  IF Len(digits) = 11 /\ digits[1] = "1"
        THEN <<"+">> \o digits
        ELSE <<"+", "1">> \o digits

standardizePhoneNumber(phone) ==
    LET digits == StripNonDigits(phone)
    IN  IF Len(digits) = 10
        THEN <<"+", "1">> \o digits
        ELSE IF Len(digits) = 11 /\ digits[1] = "1"
             THEN <<"+">> \o digits
             ELSE <<"+">> \o digits

\* /^\+\d{11,}$/.test(standardized)
validatePhone_twelve(phone) ==
    LET standardized == standardizePhoneNumber(phone)
    IN  /\ Len(standardized) >= 13
        /\ standardized[1] = "+"
        /\ \A i \in 2..Len(standardized) : IsDigit(standardized[i])

validatePhone(phone) ==
    LET standardized == standardizePhoneNumber(phone)
    IN  /\ Len(standardized) >= 12
        /\ standardized[1] = "+"
        /\ \A i \in 2..Len(standardized) : IsDigit(standardized[i])

NoError == "ok"
validateRow(row) ==
    IF Len(row.name) < 2
    THEN "Name must be at least 2 characters long"
    ELSE IF ~validatePhone(row.phone)
         THEN "Invalid phone number format"
         ELSE NoError

PhoneA == <<"+","1","5","5","5","0","1","0","0","0","0","1">>

----------------------------------------------------------------------------
(* The record store (Business table, unique index on phone) *)

NewRecord(name, phone) ==
    [name |-> name, phone |-> phone, hasDiscount |-> FALSE,
     discountAmount |-> JsNull, discountDetails |-> JsNull,
     availabilityInfo |-> JsNull, eligibilityInfo |-> JsNull,
     lastCalled |-> JsNull, callStatus |-> "pending"]

findFirst_noWhere(d, phone) ==
    IF DOMAIN d # {} THEN CHOOSE i \in DOMAIN d : \A k \in DOMAIN d : i <= k ELSE 0

\* prisma.business.findFirst({ where: { phone } }): an id, or 0 for null
findFirst(d, phone) ==
    IF \E i \in DOMAIN d : d[i].phone = phone
    THEN CHOOSE i \in DOMAIN d : d[i].phone = phone
    ELSE 0

\* a field of an update's data: undefined leaves the column alone
SetField(old, new) == IF new = Undefined THEN old ELSE new

createMany_noSkip(d, id, data) ==
    [db |-> [i \in DOMAIN d \cup (id..(id + Len(data) - 1)) |->
                IF i \in DOMAIN d THEN d[i] ELSE data[i - id + 1]],
     nextId |-> id + Len(data),
     count |-> Len(data)]

\* prisma.business.createMany({ data, skipDuplicates: true }), row by row:
\* a row whose phone is already present (in the table or earlier in the
\* batch) conflicts with the unique index and is skipped
RECURSIVE createMany(_, _, _)
createMany(d, id, data) ==
    IF data = <<>>
    THEN [db |-> d, nextId |-> id, count |-> 0]
    ELSE IF findFirst(d, Head(data).phone) # 0
         THEN createMany(d, id, Tail(data))
         ELSE LET rest == createMany(
                            [i \in DOMAIN d \cup {id} |->
                                IF i = id THEN Head(data) ELSE d[i]],
                            id + 1, Tail(data))
              IN  [rest EXCEPT !.count = @ + 1]

----------------------------------------------------------------------------
(* upload-csv and clear-database *)

NameAl == <<"A","l">>
NameBo == <<"B","o">>
NameX == <<"X">>
RawA == <<"(","5","5","5",")"," ","0","1","0","-","0","0","0","1">>
RawB == <<"1","5","5","5","0","1","0","0","0","0","2">>
RawShort == <<"5","5","5","-","0","1","0","0">>

Rows ==
    { [name |-> NameAl, phone |-> RawA],
      [name |-> NameBo, phone |-> RawB],
      [name |-> NameX, phone |-> RawB],
      [name |-> NameAl, phone |-> RawShort] }

Files == UNION { [1..n -> Rows] : n \in 1..MaxRows }

RowErrors_stopAtFirst(file) ==
    LET bad == {i \in 1..Len(file) : validateRow(file[i]) # NoError}
        first == CHOOSE i \in bad : \A k \in bad : i <= k
    IN  IF bad = {} THEN <<>>
        ELSE <<[row |-> first, error |-> validateRow(file[first])]>>

\* the validation loop: one error per invalid row, with its 1-based number
RowErrors(file) ==
    LET checked == [i \in 1..Len(file) |->
                        [row |-> i, error |-> validateRow(file[i])]]
    IN  SelectSeq(checked, LAMBDA e : e.error # NoError)

ValidRows(file) == SelectSeq(file, LAMBDA r : validateRow(r) = NoError)

RowData_raw(file) ==
    [i \in 1..Len(ValidRows(file)) |->
        NewRecord(ValidRows(file)[i].name, ValidRows(file)[i].phone)]

RowData(file) ==
    [i \in 1..Len(ValidRows(file)) |->
        NewRecord(ValidRows(file)[i].name,
                  standardizePhoneNumber(ValidRows(file)[i].phone))]

\* While a call-all is in flight `last` is kept for its response: requests
\* handled meanwhile act on the table, their responses are not recorded.
Observed(response) == IF ca.pc = "idle" THEN response ELSE last

\* the rows of each file checked and converted once
Checked == [file \in Files |-> [errors |-> RowErrors(file), data |-> RowData(file)]]

\* the response, with the rows that were parsed from the request's file
UploadResponse(file, status, errors, count) ==
    [op |-> "upload-csv", file |-> file, status |-> status, errors |-> errors,
     count |-> count]

UploadCsv_partial ==
    /\ \/ /\ last' = Observed(UploadResponse(<<>>, 400, <<>>, 0))
          /\ UNCHANGED <<db, nextId>>
       \/ /\ \E file \in Files :
                /\ Checked[file].errors = <<>>
                /\ last' = Observed(UploadResponse(file, 500, <<>>, 0))
          /\ UNCHANGED <<db, nextId>>
       \/ \E file \in Files :
            LET errors == Checked[file].errors
                made == createMany(db, nextId, Checked[file].data)
            IN  /\ made.nextId <= MaxId + 1
                /\ db' = made.db
                /\ nextId' = made.nextId
                /\ last' = Observed(IF errors # <<>>
                                    THEN UploadResponse(file, 400, errors, 0)
                                    ELSE UploadResponse(file, 200, <<>>, made.count))
    /\ UNCHANGED <<rev, now, ca>>

UploadCsv ==
    /\ \/ \* no file, or a file whose name does not end in .csv
          /\ last' = Observed(UploadResponse(<<>>, 400, <<>>, 0))
          /\ UNCHANGED <<db, nextId>>
       \/ \* createMany rejects
          /\ \E file \in Files :
                /\ Checked[file].errors = <<>>
                /\ last' = Observed(UploadResponse(file, 500, <<>>, 0))
          /\ UNCHANGED <<db, nextId>>
       \/ \E file \in Files :
            LET errors == Checked[file].errors
                made == createMany(db, nextId, Checked[file].data)
            IN  IF errors # <<>>
                THEN /\ last' = Observed(UploadResponse(file, 400, errors, 0))
                     /\ UNCHANGED <<db, nextId>>
                ELSE /\ made.nextId <= MaxId + 1
                     /\ db' = made.db
                     /\ nextId' = made.nextId
                     /\ last' = Observed(UploadResponse(file, 200, <<>>, made.count))
    /\ UNCHANGED <<rev, now, ca>>

ClearDatabase ==
    \E storeOk \in BOOLEAN :
        /\ IF storeOk
           THEN /\ db' = <<>>
                /\ last' = Observed([op |-> "clear-database", status |-> 200])
           ELSE /\ db' = db
                /\ last' = Observed([op |-> "clear-database", status |-> 500])
        /\ UNCHANGED <<rev, nextId, now, ca>>

----------------------------------------------------------------------------
(* Provider instruction documents (TwiML) *)

NoCounter == 0 - 1

Say(text) == [verb |-> "Say", text |-> text, attempts |-> NoCounter, nested |-> <<>>]
Play(audio) == [verb |-> "Play", text |-> audio, attempts |-> NoCounter, nested |-> <<>>]
Hangup == [verb |-> "Hangup", text |-> "", attempts |-> NoCounter, nested |-> <<>>]
\* gather({ action: ".../api/call-handler[?numAttempts=n]" }) with its nested verbs
Gather(attempts, nested) ==
    [verb |-> "Gather", text |-> "", attempts |-> attempts, nested |-> nested]

\* the handler returned or threw without res.send
NoResponse == <<[verb |-> "none", text |-> "", attempts |-> NoCounter, nested |-> <<>>]>>

HasVerb(doc, v) == \E i \in 1..Len(doc) : doc[i].verb = v
HasHangup(doc) == HasVerb(doc, "Hangup")
HasGather(doc) == HasVerb(doc, "Gather")
Sent(doc) == doc # NoResponse

\* twiml.toString().match(/<Say>(.*?)<\/Say>/)?.[1]
FirstSayText(doc) ==
    LET says == {<<i, j>> \in (1..Len(doc)) \X (0..2) :
                    \/ j = 0 /\ doc[i].verb = "Say"
                    \/ j >= 1 /\ j <= Len(doc[i].nested) /\ doc[i].nested[j].verb = "Say"}
        first == CHOOSE p \in says :
                    \A q \in says : p[1] < q[1] \/ (p[1] = q[1] /\ p[2] <= q[2])
    IN  IF says = {} THEN ""
        ELSE IF first[2] = 0 THEN doc[first[1]].text
             ELSE doc[first[1]].nested[first[2]].text

SorryTrouble == "I apologize, but I'm having trouble understanding. Thank you for your time."
SorryRepeat == "I'm sorry, I didn't catch that. Could you please repeat your response?"
SorryTechnical == "I apologize for the technical difficulty. Thank you for your time."
SorryThanks == "I'm sorry, I didn't catch that. Thank you for your time."
ThanksGoodbye == "Thank you for your time. Goodbye!"
ConfirmLine == "Thank you. To confirm, you offer a ... military discount ..."
FixedAudio == "speech-1732250575331.mp3"

----------------------------------------------------------------------------
(* The reasoning-service classifier *)

Str15 == <<"1","5","%">>
StrVets == <<"v","e","t","s">>
StrWeek == <<"w","e","e","k">>
StrNext == <<"n","e","x","t">>

Args(hd, amt, det, av, el, nr, end) ==
    [hasDiscount |-> hd, discountAmount |-> amt, discountDetails |-> det,
     availabilityInfo |-> av, eligibilityInfo |-> el,
     nextResponse |-> nr, shouldEndCall |-> end]

NoArgs == Args(Undefined, Undefined, Undefined, Undefined, Undefined, Undefined, Undefined)

\* what the function call's arguments parse to
ArgCases ==
    { Args(Val(TRUE), Val(Str15), Val(StrVets), Val(StrWeek), Val(StrVets),
           Val(StrNext), Val(TRUE)),
      Args(Val(FALSE), Undefined, Undefined, Undefined, Undefined,
           Val(StrNext), Val(TRUE)),
      Args(Val(FALSE), Undefined, Undefined, Undefined, Undefined,
           Val(StrNext), Val(FALSE)),
      Args(Val(TRUE), Val(Str15), Undefined, Undefined, Undefined,
           Val(StrNext), Undefined),
      Args(Undefined, Undefined, Undefined, Undefined, Undefined,
           Undefined, Val(TRUE)) }

\* what the reasoning service does with one request
ServiceReplies ==
    { [kind |-> k, args |-> NoArgs] :
        k \in {"network-error", "malformed-json", "no-function-call"} }
    \cup { [kind |-> "result", args |-> a] : a \in ArgCases }

NotCalled == [kind |-> "not-called", args |-> NoArgs]

NoAnalysis ==
    [hasDiscount |-> Undefined, discountAmount |-> Undefined,
     discountDetails |-> Undefined, availabilityInfo |-> Undefined,
     eligibilityInfo |-> Undefined, shouldEndCall |-> Undefined]

\* handleConversation: create() rejects on a network error, JSON.parse throws
\* on malformed arguments, functionCall!.arguments throws when the message
\* has no function call; the fields of a parsed result are copied unchecked
handleConversation(transcript, isFirstInteraction, reply) ==
    IF reply.kind # "result"
    THEN [threw |-> TRUE, response |-> Undefined, analysis |-> NoAnalysis]
    ELSE [threw |-> FALSE,
          response |-> reply.args.nextResponse,
          analysis |->
            [hasDiscount |-> reply.args.hasDiscount,
             discountAmount |-> reply.args.discountAmount,
             discountDetails |-> reply.args.discountDetails,
             availabilityInfo |-> reply.args.availabilityInfo,
             eligibilityInfo |-> reply.args.eligibilityInfo,
             shouldEndCall |-> reply.args.shouldEndCall]]

handleCallResponse_serviceDetails(transcript, isFirstInteraction, reply) ==
    LET result == handleConversation(transcript, isFirstInteraction, reply)
    IN  IF result.threw
        THEN [threw |-> TRUE, twiml |-> <<>>, analysis |-> NoAnalysis]
        ELSE [threw |-> FALSE,
              twiml |-> IF Truthy(result.analysis.shouldEndCall)
                        THEN <<Play(FixedAudio), Hangup>>
                        ELSE <<Gather(NoCounter, <<Play(FixedAudio)>>)>>,
              analysis |-> result.analysis]

handleCallResponse_neverHangsUp(transcript, isFirstInteraction, reply) ==
    LET result == handleConversation(transcript, isFirstInteraction, reply)
    IN  IF result.threw
        THEN [threw |-> TRUE, twiml |-> <<>>, analysis |-> NoAnalysis]
        ELSE [threw |-> FALSE,
              twiml |-> <<Gather(NoCounter, <<Play(FixedAudio)>>)>>,
              analysis |-> [result.analysis EXCEPT !.discountDetails = Val(transcript)]]

handleCallResponse(transcript, isFirstInteraction, reply) ==
    LET result == handleConversation(transcript, isFirstInteraction, reply)
    IN  IF result.threw
        THEN [threw |-> TRUE, twiml |-> <<>>, analysis |-> NoAnalysis]
        ELSE [threw |-> FALSE,
              twiml |-> IF Truthy(result.analysis.shouldEndCall)
                        THEN <<Play(FixedAudio), Hangup>>
                        ELSE <<Gather(NoCounter, <<Play(FixedAudio)>>)>>,
              analysis |-> [result.analysis EXCEPT !.discountDetails = Val(transcript)]]

----------------------------------------------------------------------------
(* The pattern-matching classifier of the first revision *)

LitYes == <<"y","e","s">>
LitYeah == <<"y","e","a","h">>
LitWeDo == <<"w","e"," ","d","o">>
LitCorrect == <<"c","o","r","r","e","c","t">>
LitPercentSign == <<"%">>
LitPercent == <<"p","e","r","c","e","n","t">>
LitActive == <<"a","c","t","i","v","e">>
LitDuty == <<"d","u","t","y">>
LitOnly == <<"o","n","l","y">>
LitAvailable == <<"a","v","a","i","l","a","b","l","e">>
TextActiveDutyOnly ==
    <<"A","c","t","i","v","e"," ","d","u","t","y"," ","o","n","l","y","."," ">>
TextAvailable == <<"A","v","a","i","l","a","b","l","e"," ">>

\* the last position of the run of characters of class that starts
\* at i (i - 1 when the run is empty)
RunEnd(s, i, class) ==
    LET ends == {j \in (i - 1)..Len(s) : \A k \in i..j : s[k] \in class}
    IN  CHOOSE j \in ends : \A k \in ends : k <= j

\* (\d+)(?:\s*%|\s*percent) matched with the digits starting at i
PercentAt(s, i) ==
    /\ i \in 1..Len(s)
    /\ IsDigit(s[i])
    /\ LET j == RunEnd(s, i, Digits)
           k == RunEnd(s, j + 1, Spaces) + 1
       IN  MatchAt(s, k, LitPercentSign) \/ MatchAt(s, k, LitPercent)

\* transcript.match(/(\d+)(?:\s*%|\s*percent)/): group 1 of the leftmost match
percentageMatch(transcript) ==
    LET starts == {i \in 1..Len(transcript) : PercentAt(transcript, i)}
        i0 == CHOOSE i \in starts : \A k \in starts : i <= k
    IN  IF starts = {} THEN JsNull
        ELSE Val(SubSeq(transcript, i0, RunEnd(transcript, i0, Digits)))

\* /active\s*duty\s*only/i
activeDutyOnly(transcript) ==
    LET t == ToLower(transcript)
    IN  \E i \in 1..Len(t) :
            /\ MatchAt(t, i, LitActive)
            /\ LET d == RunEnd(t, i + 6, Spaces) + 1
                   o == RunEnd(t, d + 4, Spaces) + 1
               IN  MatchAt(t, d, LitDuty) /\ MatchAt(t, o, LitOnly)

InfoChars == WordChars \cup Spaces \cup {","}

\* /available\s*([\w\s,]+)(?=\.|$)/i with "available" at i: the group must
\* run up to a full stop or the end of the transcript
AvailableAt(t, i) ==
    /\ MatchAt(ToLower(t), i, LitAvailable)
    /\ LET q == RunEnd(t, i + 9, InfoChars)
       IN  /\ q >= i + 9
           /\ (q = Len(t) \/ t[q + 1] = ".")

availabilityInfo(transcript) ==
    LET starts == {i \in 1..Len(transcript) : AvailableAt(transcript, i)}
        i0 == CHOOSE i \in starts : \A k \in starts : i <= k
        q == RunEnd(transcript, i0 + 9, InfoChars)
        sp == RunEnd(transcript, i0 + 9, Spaces)
        g == IF sp < q THEN sp + 1 ELSE q
    IN  IF starts = {} THEN JsNull ELSE Val(SubSeq(transcript, g, q))

\* String.prototype.trim
Trim(s) ==
    LET keep == {i \in 1..Len(s) : ~IsSpace(s[i])}
        lo == CHOOSE i \in keep : \A k \in keep : i <= k
        hi == CHOOSE i \in keep : \A k \in keep : k <= i
    IN  IF keep = {} THEN <<>> ELSE SubSeq(s, lo, hi)

analyzeSpeechResponse(transcript) ==
    LET t == ToLower(transcript)
        pm == percentageMatch(transcript)
        av == availabilityInfo(transcript)
    IN  [hasDiscount |->
            Val(Contains(t, LitYes) \/ Contains(t, LitYeah)
                \/ Contains(t, LitWeDo) \/ Contains(t, LitCorrect)),
         discountAmount |->
            IF pm = JsNull THEN JsNull ELSE Val(Get(pm) \o <<"%">>),
         discountDetails |->
            Val(Trim((IF activeDutyOnly(transcript) THEN TextActiveDutyOnly ELSE <<>>)
                     \o (IF av = JsNull THEN <<>> ELSE TextAvailable \o Get(av)))),
         availabilityInfo |-> Undefined,
         eligibilityInfo |-> Undefined,
         shouldEndCall |-> Undefined]

----------------------------------------------------------------------------
(* The pattern classifier of revision 2 (defined beside its handler, which *)
(* does not call it)                                                       *)

\* \b before position i of s (i = Len(s) + 1: at the end)
Boundary(s, i) ==
    (i > 1 /\ s[i - 1] \in WordChars) # (i <= Len(s) /\ s[i] \in WordChars)

\* \b lit \b at position i
WholeWordAt(s, i, lit) ==
    MatchAt(s, i, lit) /\ Boundary(s, i) /\ Boundary(s, i + Len(lit))

\* yes|yeah|yep|correct|we do|offer|have|gives?|provides?
Affirmatives ==
    { <<"y","e","s">>,
      <<"y","e","a","h">>,
      <<"y","e","p">>,
      <<"c","o","r","r","e","c","t">>,
      <<"w","e"," ","d","o">>,
      <<"o","f","f","e","r">>,
      <<"h","a","v","e">>,
      <<"g","i","v","e">>,
      <<"g","i","v","e","s">>,
      <<"p","r","o","v","i","d","e">>,
      <<"p","r","o","v","i","d","e","s">>}

\* no|don't|not|doesn't
Negations == {<<"n","o">>, <<"d","o","n","'","t">>, <<"n","o","t">>, <<"d","o","e","s","n","'","t">>}

\* offer|have|give|provide
NegatedVerbs == {<<"o","f","f","e","r">>, <<"h","a","v","e">>, <<"g","i","v","e">>, <<"p","r","o","v","i","d","e">>}

\* /\b(yes|yeah|yep|correct|we do|offer|have|gives?|provides?)\b/i
affirmed(text) ==
    \E i \in 1..Len(text), lit \in Affirmatives : WholeWordAt(text, i, lit)

\* /\b(no|don't|not|doesn't)\s+(?:offer|have|give|provide)\b/i
negated(text) ==
    \E i \in 1..Len(text), n \in Negations, v \in NegatedVerbs :
        /\ MatchAt(text, i, n)
        /\ Boundary(text, i)
        /\ LET k == RunEnd(text, i + Len(n), Spaces)
           IN  /\ k >= i + Len(n)
               /\ MatchAt(text, k + 1, v)
               /\ Boundary(text, k + 1 + Len(v))

LitDollar == <<"d","o","l","l","a","r">>
LitOff == <<"o","f","f">>

\* (\d+)(?:\s*dollars?\s+off) matched with the digits starting at i
DollarsAt(s, i) ==
    /\ i \in 1..Len(s)
    /\ IsDigit(s[i])
    /\ LET j == RunEnd(s, i, Digits)
           k == RunEnd(s, j + 1, Spaces) + 1
           m == IF MatchAt(s, k + 6, <<"s">>) THEN k + 7 ELSE k + 6
           e == RunEnd(s, m, Spaces)
       IN  MatchAt(s, k, LitDollar) /\ e >= m /\ MatchAt(s, e + 1, LitOff)

LitTen == <<"t","e","n">>
LitFifteen == <<"f","i","f","t","e","e","n">>
LitTwenty == <<"t","w","e","n","t","y">>

\* \b(ten|fifteen|twenty)\s*(?:percent|%) matched at i
WrittenAt(s, i) ==
    \E w \in {LitTen, LitFifteen, LitTwenty} :
        /\ MatchAt(s, i, w)
        /\ Boundary(s, i)
        /\ LET k == RunEnd(s, i + Len(w), Spaces) + 1
           IN  MatchAt(s, k, LitPercent) \/ MatchAt(s, k, LitPercentSign)

NoMatch == <<"none">>

\* percentageMatches[0][1]: the matchAll results are match arrays, whose
\* element 1 is the digits group; the spread result of match() contributes
\* strings, the full match first, whose element 1 is its second character
firstMatch(text) ==
    LET pct == {i \in 1..Len(text) : PercentAt(text, i)}
        dol == {i \in 1..Len(text) : DollarsAt(text, i)}
        wri == {i \in 1..Len(text) : WrittenAt(text, i)}
        Least(set) == CHOOSE i \in set : \A k \in set : i <= k
        Group(i) == SubSeq(text, i, RunEnd(text, i, Digits))
    IN  IF pct # {} THEN Val(Group(Least(pct)))
        ELSE IF dol # {} THEN Val(Group(Least(dol)))
        ELSE IF wri # {} THEN Val(<<text[Least(wri) + 1]>>)
        ELSE NoMatch

\* numberMap[match.toLowerCase()] || match
numberMap(match) ==
    CASE ToLower(match) = LitTen -> <<"1","0">>
      [] ToLower(match) = LitFifteen -> <<"1","5">>
      [] ToLower(match) = LitTwenty -> <<"2","0">>
      [] OTHER -> match

TextDollarsOff == <<" ","d","o","l","l","a","r","s"," ","o","f","f">>

analyzeSpeechResponseRev2(transcript) ==
    LET normalizedText == Trim(ToLower(transcript))
        match == firstMatch(normalizedText)
    IN  [hasDiscount |-> Val(affirmed(normalizedText) /\ ~negated(normalizedText)),
         discountAmount |->
            IF match = NoMatch THEN JsNull
            ELSE Val(numberMap(Get(match))
                     \o (IF Contains(Get(match), LitDollar)
                         THEN TextDollarsOff ELSE <<"%">>)),
         discountDetails |-> Val(transcript),
         availabilityInfo |-> Undefined,
         eligibilityInfo |-> Undefined,
         shouldEndCall |-> Undefined]

----------------------------------------------------------------------------
(* Record updates *)

Data(hd, amt, det, av, el, lc, cs) ==
    [hasDiscount |-> hd, discountAmount |-> amt, discountDetails |-> det,
     availabilityInfo |-> av, eligibilityInfo |-> el,
     lastCalled |-> lc, callStatus |-> cs]

\* data: { callStatus: "in-progress" }
InProgressData ==
    Data(Undefined, Undefined, Undefined, Undefined, Undefined, Undefined,
         Val("in-progress"))

CallingData_withDetails ==
    Data(Undefined, Undefined, Val(<<>>), Undefined, Undefined, Undefined,
         Val("calling"))

\* data: { callStatus: "calling" }
CallingData ==
    Data(Undefined, Undefined, Undefined, Undefined, Undefined, Undefined,
         Val("calling"))

\* the data of the update that closes a call
CompletedData(analysis, t) ==
    Data(analysis.hasDiscount, analysis.discountAmount, analysis.discountDetails,
         analysis.availabilityInfo, analysis.eligibilityInfo,
         Val(t), Val("completed"))

\* prisma.business.update({ where: { id }, data })
update(d, id, data) ==
    [d EXCEPT ![id] =
        [name |-> @.name,
         phone |-> @.phone,
         hasDiscount |-> IF IsVal(data.hasDiscount)
                         THEN Get(data.hasDiscount) ELSE @.hasDiscount,
         discountAmount |-> SetField(@.discountAmount, data.discountAmount),
         discountDetails |-> SetField(@.discountDetails, data.discountDetails),
         availabilityInfo |-> SetField(@.availabilityInfo, data.availabilityInfo),
         eligibilityInfo |-> SetField(@.eligibilityInfo, data.eligibilityInfo),
         lastCalled |-> SetField(@.lastCalled, data.lastCalled),
         callStatus |-> IF IsVal(data.callStatus)
                        THEN Get(data.callStatus) ELSE @.callStatus]]

Write(id, data) == [id |-> id, data |-> data]

----------------------------------------------------------------------------
(* Webhook inputs *)

TYes == <<"Y","e","s"," ","1","0","%">>

Tos == {Undefined, Val(PhoneA)}
Speeches == {Undefined, Val(<<>>), Val(TYes)}
\* req.body.numAttempts; only revision 3 reads it
BodyAttempts == IF rev = 3 THEN {Undefined, Val(2)} ELSE {Undefined}

\* the normaliser and the pattern classifier on those inputs, computed once
Standardized == [p \in {PhoneA} |-> standardizePhoneNumber(p)]
Analysed == [t \in {TYes} |-> analyzeSpeechResponse(t)]

----------------------------------------------------------------------------
(* call-handler: each revision as the set of its possible runs.  A run is  *)
(* fixed by the request, the table, the clock and by what each external    *)
(* call the run reaches does (succeed or throw; the service's reply).      *)

\* a run: the response sent, the service reply it consumed, whether an
\* exception was caught or escaped, and the record updates it made, in order
Run(resp, reply, threw, writes) ==
    [resp |-> resp, reply |-> reply, threw |-> threw, writes |-> writes]

RECURSIVE ApplyWrites(_, _)
ApplyWrites(d, writes) ==
    IF writes = <<>> THEN d
    ELSE ApplyWrites(update(d, Head(writes).id, Head(writes).data), Tail(writes))

MaxAttempts == 2

\* parseInt(req.body.numAttempts || "0")
numAttemptsOf(req) == IF req.numAttempts = Undefined THEN 0 ELSE Get(req.numAttempts)

CallHandlerRev1_reprompt(d, req, t) ==
    LET speechResult == req.SpeechResult
        analysis == Analysed[Get(speechResult)]
        Caught == Run(<<Say(SorryTechnical), Hangup>>, NotCalled, "caught", <<>>)
        id == findFirst(d, Standardized[Get(req.To)])
        data == CompletedData(analysis, t)
    IN  IF Falsy(speechResult)
        THEN {Run(<<Gather(NoCounter, <<Say(SorryRepeat)>>)>>, NotCalled, "no", <<>>)}
        ELSE IF req.To = Undefined
        THEN {Caught}
        ELSE {Caught} \cup
             IF id = 0
             THEN {Run(<<Say(ThanksGoodbye), Hangup>>, NotCalled, "no", <<>>)}
             ELSE {Run(<<Say(ConfirmLine), Hangup>>, NotCalled, "no",
                       <<Write(id, data)>>)}

\* revision 1: pattern matching, one turn
CallHandlerRev1(d, req, t) ==
    LET speechResult == req.SpeechResult
        analysis == Analysed[Get(speechResult)]
        Caught == Run(<<Say(SorryTechnical), Hangup>>, NotCalled, "caught", <<>>)
        id == findFirst(d, Standardized[Get(req.To)])
        data == CompletedData(analysis, t)
    IN  IF Falsy(speechResult)
        THEN {Run(<<Say(SorryThanks), Hangup>>, NotCalled, "no", <<>>)}
        ELSE IF req.To = Undefined
        THEN {Caught}
        ELSE {Caught} \cup
             IF id = 0
             THEN {Run(<<Say(ThanksGoodbye), Hangup>>, NotCalled, "no", <<>>)}
             ELSE {Run(<<Say(ConfirmLine), Hangup>>, NotCalled, "no",
                       <<Write(id, data)>>)}

\* revision 2: reasoning service, record looked up and updated
CallHandlerRev2(d, req, t) ==
    LET speechResult == req.SpeechResult
        isFirstInteraction == Falsy(speechResult)
        Caught(reply, w) == Run(<<Say(SorryTechnical), Hangup>>, reply, "caught", w)
        id == findFirst(d, Standardized[Get(req.To)])
        w1 == IF isFirstInteraction THEN <<Write(id, InProgressData)>> ELSE <<>>
        Turn(reply) ==
            LET hcr == handleCallResponse(OrEmpty(speechResult), isFirstInteraction, reply)
                data == CompletedData(hcr.analysis, t)
            IN  IF hcr.threw
                THEN {Caught(reply, w1)}
                ELSE IF Truthy(hcr.analysis.shouldEndCall)
                THEN {Caught(reply, w1),
                      Run(hcr.twiml, reply, "no", w1 \o <<Write(id, data)>>)}
                ELSE {Run(hcr.twiml, reply, "no", w1)}
    IN  IF Falsy(speechResult) /\ ~isFirstInteraction
        THEN {Run(<<Say(SorryThanks), Hangup>>, NotCalled, "no", <<>>)}
        ELSE IF req.To = Undefined
        THEN {Caught(NotCalled, <<>>)}
        ELSE {Caught(NotCalled, <<>>)} \cup
             IF id = 0
             THEN {Run(<<Say(ThanksGoodbye), Hangup>>, NotCalled, "no", <<>>)}
             ELSE UNION {Turn(reply) : reply \in ServiceReplies}

\* revision 3: reasoning service, spoken lines generated per response
CallHandlerRev3(d, req, t) ==
    LET speechResult == req.SpeechResult
        isFirstInteraction == Falsy(speechResult)
        numAttempts == numAttemptsOf(req)
        Escaped(reply) == Run(NoResponse, reply, "escaped", <<>>)
        \* the catch block: its own generateAndStoreVoice may throw as well
        Catch(reply) ==
            {Run(<<Play(SorryTechnical), Hangup>>, reply, "caught", <<>>),
             Escaped(reply)}
        Turn(reply) ==
            LET hcr == handleCallResponse(OrEmpty(speechResult), isFirstInteraction, reply)
                responseText == FirstSayText(hcr.twiml)
            IN  IF hcr.threw
                THEN Catch(reply)
                ELSE IF responseText # ""
                THEN Catch(reply) \cup
                     {Run(IF Truthy(hcr.analysis.shouldEndCall)
                          THEN <<Play(responseText), Hangup>>
                          ELSE <<Gather(NoCounter, <<Play(responseText)>>)>>,
                          reply, "no", <<>>)}
                ELSE {Run(hcr.twiml, reply, "no", <<>>)}
    IN  IF Falsy(speechResult) /\ ~isFirstInteraction
        THEN {Escaped(NotCalled)} \cup
             IF numAttempts >= MaxAttempts
             THEN {Run(<<Play(SorryTrouble), Hangup>>, NotCalled, "no", <<>>)}
             ELSE {Run(<<Gather(numAttempts + 1, <<Play(SorryRepeat)>>)>>,
                       NotCalled, "no", <<>>)}
        ELSE UNION {Turn(reply) : reply \in ServiceReplies}

CallHandler(d, req, t) ==
    CASE rev = 1 -> CallHandlerRev1(d, req, t)
      [] rev = 2 -> CallHandlerRev2(d, req, t)
      [] rev = 3 -> CallHandlerRev3(d, req, t)

----------------------------------------------------------------------------
(* Webhooks *)

Request(to, speech, n) == [To |-> to, SpeechResult |-> speech, numAttempts |-> n]

\* the counter in the action URL of the response's listening window
GatherCounter(doc) ==
    LET g == CHOOSE i \in 1..Len(doc) : doc[i].verb = "Gather"
    IN  IF HasGather(doc) THEN doc[g].attempts ELSE NoCounter

Handled(req, query, r, silent) ==
    [op |-> "call-handler", req |-> req, query |-> query,
     reply |-> r.reply, threw |-> r.threw, writes |-> r.writes,
     resp |-> r.resp, silent |-> silent]

\* a call-all in flight notes which of its records a webhook has written
Touch(writes) ==
    IF ca.pc = "idle" THEN ca
    ELSE [ca EXCEPT !.touched = @ \cup {writes[i].id : i \in 1..Len(writes)}]

\* a request to /api/call-handler out of the blue: the first webhook of a
\* call, or any other POST
Webhook ==
    \E to \in Tos, speech \in Speeches, n \in BodyAttempts :
        \E r \in CallHandler(db, Request(to, speech, n), now) :
            /\ db' = ApplyWrites(db, r.writes)
            /\ last' = Observed(Handled(Request(to, speech, n), NoCounter, r, 0))
            /\ ca' = Touch(r.writes)
            /\ UNCHANGED <<rev, nextId, now>>

\* the provider's next webhook of the same call: it posts to the action URL
\* of the listening window the previous response opened; the counter of
\* that URL travels in the query string, not in the form body
WebhookNext ==
    /\ last.op = "call-handler"
    /\ HasGather(last.resp)
    /\ last.silent < MaxRun
    /\ \E speech \in Speeches :
        LET req == Request(last.req.To, speech, Undefined)
        IN  \E r \in CallHandler(db, req, now) :
                /\ db' = ApplyWrites(db, r.writes)
                /\ last' = Handled(req, GatherCounter(last.resp), r,
                                   IF Falsy(speech) /\ HasGather(r.resp)
                                   THEN last.silent + 1 ELSE 0)
                /\ ca' = Touch(r.writes)
                /\ UNCHANGED <<rev, nextId, now>>

Tick ==
    /\ now < MaxClock
    /\ now' = now + 1
    /\ UNCHANGED <<rev, db, nextId, last, ca>>

----------------------------------------------------------------------------
(* call-all *)

Idle == [pc |-> "idle", businesses |-> <<>>, results |-> <<>>, touched |-> {}]

\* prisma.business.findMany(): the rows, here in primary-key order
RECURSIVE findMany(_, _)
findMany(d, from) ==
    IF \A i \in DOMAIN d : i < from
    THEN <<>>
    ELSE LET i == CHOOSE i \in DOMAIN d : i >= from /\ \A k \in DOMAIN d : k >= from => i <= k
         IN  <<[id |-> i, phone |-> d[i].phone]>> \o findMany(d, i + 1)

updateMany_onlyListed(d, ids, data) ==
    [i \in DOMAIN d \cap ids |-> update(d, i, data)[i]]

updateMany_firstOnly(d, ids, data) ==
    [i \in DOMAIN d |->
        IF i \in ids /\ (\A k \in ids : i <= k) THEN update(d, i, data)[i] ELSE d[i]]

\* prisma.business.updateMany({ where: { id: { in: ids } }, data })
updateMany(d, ids, data) ==
    [i \in DOMAIN d |-> IF i \in ids THEN update(d, i, data)[i] ELSE d[i]]

\* businesses.map((business) => makeCall(business.phone)): one pending
\* placement per business, in order
callPromises_dropFirst(businesses) ==
    [i \in 1..(Len(businesses) - 1) |->
        [to |-> businesses[i + 1].phone, status |-> "pending"]]

callPromises(businesses) ==
    [i \in 1..Len(businesses) |-> [to |-> businesses[i].phone, status |-> "pending"]]

Count(results, status) == Len(SelectSeq(results, LAMBDA r : r.status = status))

CallAllPending == [op |-> "call-all", status |-> 0]

\* the catch block's response; results are the placements started so far
CallAllFailed(results) ==
    [op |-> "call-all", status |-> 500, successful |-> 0, failed |-> 0, total |-> 0,
     businesses |-> <<>>, results |-> results, touched |-> {}]

\* the response: Promise.allSettled's results counted by status
CallAllResponse_countAll(businesses, results, touched) ==
    [op |-> "call-all", status |-> 200,
     successful |-> Count(results, "fulfilled"),
     failed |-> Len(results) - Count(results, "pending"),
     total |-> Len(businesses),
     businesses |-> businesses, results |-> results, touched |-> touched]

CallAllResponse(businesses, results, touched) ==
    [op |-> "call-all", status |-> 200,
     successful |-> Count(results, "fulfilled"),
     failed |-> Count(results, "rejected"),
     total |-> Len(businesses),
     businesses |-> businesses, results |-> results, touched |-> touched]

CallAllRead_placesFirst ==
    /\ ca.pc = "idle"
    /\ \/ /\ last' = CallAllFailed(ca.results)
          /\ ca' = ca
       \/ /\ ca' = [pc |-> IF rev = 1 THEN "placing" ELSE "read",
                    businesses |-> findMany(db, 1),
                    results |-> callPromises(findMany(db, 1)),
                    touched |-> {}]
          /\ last' = CallAllPending
    /\ UNCHANGED <<rev, db, nextId, now>>

\* await prisma.business.findMany(); a rejection goes to the catch block.
\* Revision 1 has no status write and places the calls right away.
CallAllRead ==
    /\ ca.pc = "idle"
    /\ \/ /\ last' = CallAllFailed(ca.results)
          /\ ca' = ca
       \/ /\ ca' = [pc |-> IF rev = 1 THEN "placing" ELSE "read",
                    businesses |-> findMany(db, 1),
                    results |-> IF rev = 1 THEN callPromises(findMany(db, 1)) ELSE <<>>,
                    touched |-> {}]
          /\ last' = CallAllPending
    /\ UNCHANGED <<rev, db, nextId, now>>

\* await prisma.business.updateMany(...), then the placements start
CallAllMark ==
    /\ ca.pc = "read"
    /\ \/ /\ last' = CallAllFailed(ca.results)
          /\ ca' = Idle
          /\ db' = db
       \/ /\ db' = updateMany(db, {ca.businesses[i].id : i \in 1..Len(ca.businesses)},
                              CallingData)
          /\ ca' = [ca EXCEPT !.pc = "placing", !.results = callPromises(ca.businesses)]
          /\ last' = last
    /\ UNCHANGED <<rev, nextId, now>>

\* makeCall settles: client.calls.create (and, in revision 3, the audio
\* generation before it) succeeded, or one of them threw
PlacementSettle ==
    /\ ca.pc = "placing"
    /\ \E i \in 1..Len(ca.results), outcome \in {"fulfilled", "rejected"} :
        /\ ca.results[i].status = "pending"
        /\ ca' = [ca EXCEPT !.results[i].status = outcome]
    /\ UNCHANGED <<rev, db, nextId, now, last>>

\* await Promise.allSettled(callPromises) resumes when none is pending
CallAllRespond ==
    /\ ca.pc = "placing"
    /\ \A i \in 1..Len(ca.results) : ca.results[i].status # "pending"
    /\ last' = CallAllResponse(ca.businesses, ca.results, ca.touched)
    /\ ca' = Idle
    /\ UNCHANGED <<rev, db, nextId, now>>

----------------------------------------------------------------------------
(* The system *)

Revisions == {1, 2, 3}

Init ==
    /\ rev \in Revisions
    /\ db = <<>>
    /\ nextId = 1
    /\ now = 1
    /\ last = [op |-> "none"]
    /\ ca = Idle

Next ==
    \/ UploadCsv
    \/ ClearDatabase
    \/ Tick
    \/ Webhook
    \/ WebhookNext
    \/ CallAllRead
    \/ CallAllMark
    \/ PlacementSettle
    \/ CallAllRespond

Spec == Init /\ [][Next]_vars

----------------------------------------------------------------------------
(* The phone normaliser and validator on their own: `last` holds the call  *)
(* made last, with its argument and its result.                            *)

FillDigits == <<"5","5","5","0","1","0","0","0","0","2","3","4","6">>

\* a string of n digits that starts with digit first
Digs(n, first) ==
    [i \in 1..n |-> IF i = 1 THEN first
                    ELSE FillDigits[((i - 2) % Len(FillDigits)) + 1]]

Styles == {"plain", "plus", "dashes", "parens", "ext"}

\* digits d written the way phone numbers are commonly written
Format(d, style) ==
    CASE style = "plain" -> d
      [] style = "plus" -> <<"+">> \o d
      [] style = "dashes" ->
            [i \in 1..(2 * Len(d)) |-> IF i % 2 = 1 THEN d[(i + 1) \div 2] ELSE "-"]
      [] style = "parens" -> <<"(">> \o d \o <<")", " ">>
      [] style = "ext" -> d \o <<" ", "x">>

PhoneInputs ==
    {Format(Digs(n, first), style) :
        n \in 0..MaxDigits, first \in {"1", "5"}, style \in Styles}

PhoneInit ==
    /\ rev = 3
    /\ db = <<>>
    /\ nextId = 1
    /\ now = 1
    /\ ca = Idle
    /\ \E phone \in PhoneInputs : last = [op |-> "phone", phone |-> phone]

Standardize ==
    /\ last.op = "phone"
    /\ last' = [op |-> "standardized", phone |-> last.phone,
                out |-> standardizePhoneNumber(last.phone)]
    /\ UNCHANGED <<rev, db, nextId, now, ca>>

\* the normaliser applied to its own result
Restandardize ==
    /\ last.op = "standardized"
    /\ last' = [op |-> "restandardized", phone |-> last.phone, out |-> last.out,
                again |-> standardizePhoneNumber(last.out)]
    /\ UNCHANGED <<rev, db, nextId, now, ca>>

Validate ==
    /\ last.op = "phone"
    /\ last' = [op |-> "validated", phone |-> last.phone,
                accepted |-> validatePhone(last.phone)]
    /\ UNCHANGED <<rev, db, nextId, now, ca>>

\* the validation loop of upload-csv over a file that has the phone in row k
ValidateRows ==
    /\ last.op = "phone"
    /\ \E k \in 1..MaxRows, name \in {NameAl, NameX} :
        LET file == [i \in 1..MaxRows |->
                        IF i = k THEN [name |-> name, phone |-> last.phone]
                        ELSE [name |-> NameBo, phone |-> RawB]]
        IN  last' = [op |-> "rows", phone |-> last.phone, row |-> k,
                     file |-> file, errors |-> RowErrors(file)]
    /\ UNCHANGED <<rev, db, nextId, now, ca>>

PhoneNext == Standardize \/ Restandardize \/ Validate \/ ValidateRows

SpecPhone == PhoneInit /\ [][PhoneNext]_vars

----------------------------------------------------------------------------
(* The pattern classifiers on their own: `last` holds the transcript and,  *)
(* once classified, the result.                                            *)

Vocabulary ==
    { <<"Y","e","s">>,
      <<"y","e","p">>,
      <<"y","e","s","t","e","r","d","a","y">>,
      <<"N","o">>,
      <<"n","o","t">>,
      <<"w","e">>,
      <<"d","o">>,
      <<"d","o","n","'","t">>,
      <<"o","f","f","e","r">>,
      <<"o","f","f","e","r","i","n","g">>,
      <<"h","a","v","e">>,
      <<"g","i","v","e","s">>,
      <<"t","h","a","t">>,
      <<"1","5","%">>,
      <<"1","5">>,
      <<"p","e","r","c","e","n","t">>,
      <<"1","0">>,
      <<"d","o","l","l","a","r","s">>,
      <<"o","f","f">>,
      <<"t","e","n">> }

SampleTranscripts ==
    { <<"Y","e","s"," ","w","e"," ","o","f","f","e","r"," ","1","5","%"," ","o","f","f">>,
      <<"N","o"," ","w","e"," ","d","o","n","'","t"," ","o","f","f","e","r"," ","t","h","a","t">>,
      <<"t","e","n"," ","p","e","r","c","e","n","t"," ","f","o","r"," ","v","e","t","e","r","a","n","s">>,
      <<"F","i","f","t","e","e","n"," ","p","e","r","c","e","n","t">>,
      <<"t","w","e","n","t","y"," ","%">>,
      <<"W","e"," ","g","i","v","e"," ","1","0"," ","d","o","l","l","a","r","s"," ","o","f","f">>,
      <<" ","w","e"," ","d","o"," ">> }

RECURSIVE Join(_)
\* the words of ws separated by single spaces
Join(ws) ==
    IF Len(ws) = 0 THEN <<>>
    ELSE IF Len(ws) = 1 THEN ws[1]
    ELSE ws[1] \o <<" ">> \o Join(Tail(ws))

Transcripts ==
    SampleTranscripts
    \cup {Join(ws) : ws \in UNION {[1..n -> Vocabulary] : n \in 1..MaxWords}}

SpeechInit ==
    /\ rev \in {1, 2}
    /\ db = <<>>
    /\ nextId = 1
    /\ now = 1
    /\ ca = Idle
    /\ \E t \in Transcripts : last = [op |-> "transcript", transcript |-> t]

AnalyseRev1 ==
    /\ rev = 1
    /\ last.op = "transcript"
    /\ last' = [op |-> "analysed", transcript |-> last.transcript,
                out |-> analyzeSpeechResponse(last.transcript)]
    /\ UNCHANGED <<rev, db, nextId, now, ca>>

AnalyseRev2 ==
    /\ rev = 2
    /\ last.op = "transcript"
    /\ last' = [op |-> "analysed", transcript |-> last.transcript,
                out |-> analyzeSpeechResponseRev2(last.transcript)]
    /\ UNCHANGED <<rev, db, nextId, now, ca>>

SpeechNext == AnalyseRev1 \/ AnalyseRev2

SpecSpeech == SpeechInit /\ [][SpeechNext]_vars

----------------------------------------------------------------------------
(* Properties of the phone normaliser and validator *)

RECURSIVE DigitsOf(_)
\* the digit characters of x, in order
DigitsOf(x) ==
    IF x = <<>> THEN <<>>
    ELSE IF Head(x) \in {"0","1","2","3","4","5","6","7","8","9"}
         THEN <<Head(x)>> \o DigitsOf(Tail(x))
         ELSE DigitsOf(Tail(x))

\* "+" followed by at least 11 digits
PlusElevenDigits(p) ==
    /\ Len(p) >= 12
    /\ p[1] = "+"
    /\ DigitsOf(Tail(p)) = Tail(p)

\* C12: standardizePhoneNumber returns a string for every string, equal to
\* the reference: with d the digits of the input, "+1" d when d has 10
\* digits, "+" d when d has 11 digits and starts with "1", "+" d otherwise.
C12_NormalizerReference ==
    last.op = "standardized" =>
        LET d == DigitsOf(last.phone)
        IN  /\ DOMAIN last.out = 1..Len(last.out)
            /\ last.out = IF Len(d) = 10 THEN <<"+", "1">> \o d
                          ELSE IF Len(d) = 11 /\ d[1] = "1" THEN <<"+">> \o d
                          ELSE <<"+">> \o d

C12_Witness ==
    /\ last.op = "standardized"
    /\ Len(DigitsOf(last.phone)) = 10
    /\ Len(last.phone) > 10
    /\ Len(last.out) = 12

\* C13: standardizePhoneNumber applied to its own result returns that
\* result.
C13_NormalizerIdempotent ==
    last.op = "restandardized" => last.again = last.out

C13_Witness ==
    /\ last.op = "restandardized"
    /\ Len(DigitsOf(last.phone)) = 10
    /\ last.out # last.phone
    /\ last.again = last.out

\* C14: validatePhone accepts a string exactly when its normalised form is
\* "+" followed by at least 11 digits, which is exactly when the string
\* holds at least 10 digits; and a row whose phone is not accepted gets one
\* error carrying the row's 1-based number.
C14_ValidatorAccepts ==
    /\ last.op = "validated" =>
        /\ last.accepted <=> PlusElevenDigits(standardizePhoneNumber(last.phone))
        /\ last.accepted <=> Len(DigitsOf(last.phone)) >= 10
    /\ (last.op = "rows" /\ Len(DigitsOf(last.phone)) < 10) =>
        Cardinality({j \in 1..Len(last.errors) : last.errors[j].row = last.row}) = 1

C14_Witness ==
    /\ last.op = "rows"
    /\ Len(DigitsOf(last.phone)) = 9
    /\ last.row = 2
    /\ last.file[2].name = NameAl
    /\ last.errors = <<[row |-> 2, error |-> "Invalid phone number format"]>>

----------------------------------------------------------------------------
(* Properties of the pattern classifiers *)

RECURSIVE Split(_)
\* the lower-cased words of t, split at spaces
Split(t) ==
    LET s == ToLower(t)
        sp == {i \in 1..Len(s) : s[i] = " "}
        cut == CHOOSE i \in sp : \A k \in sp : i <= k
        head == SubSeq(s, 1, cut - 1)
        rest == Split(SubSeq(s, cut + 1, Len(s)))
    IN  IF s = <<>> THEN <<>>
        ELSE IF sp = {} THEN <<s>>
        ELSE IF head = <<>> THEN rest
        ELSE <<head>> \o rest

IsAnalysed == last.op = "analysed"

\* the transcript has one of the affirmative tokens the specification lists
HasAffirmativeToken(ws) ==
    \/ \E i \in 1..Len(ws) : ws[i] \in
            {<<"y","e","s">>, <<"y","e","a","h">>, <<"c","o","r","r","e","c","t">>, <<"o","f","f","e","r">>, <<"h","a","v","e">>, <<"g","i","v","e">>, <<"g","i","v","e","s">>, <<"p","r","o","v","i","d","e">>, <<"p","r","o","v","i","d","e","s">>}
    \/ \E i \in 1..(Len(ws) - 1) : ws[i] = <<"w","e">> /\ ws[i + 1] = <<"d","o">>

\* a negation word immediately followed by offer/have/give/provide
HasNegatedVerb(ws) ==
    \E i \in 1..(Len(ws) - 1) :
        /\ ws[i] \in {<<"n","o">>, <<"d","o","n","'","t">>, <<"n","o","t">>, <<"d","o","e","s","n","'","t">>}
        /\ ws[i + 1] \in {<<"o","f","f","e","r">>, <<"h","a","v","e">>, <<"g","i","v","e">>, <<"p","r","o","v","i","d","e">>}

\* C16: the pattern classifier (either revision) returns hasDiscount = true
\* exactly when the transcript has an affirmative token (yes, yeah, we do,
\* correct, offer, have, give(s), provide(s)) and no negation word
\* immediately followed by offer/have/give/provide.
C16_PatternHasDiscount ==
    IsAnalysed =>
        last.out.hasDiscount =
            Val(HasAffirmativeToken(Split(last.transcript))
                /\ ~HasNegatedVerb(Split(last.transcript)))

IsNumeral(w) == w # <<>> /\ DigitsOf(w) = w

\* the amounts said as "<N>%" or "<N> percent"
PercentAmounts(ws) ==
    {n \in {DigitsOf(ws[i]) : i \in 1..Len(ws)} :
        \E i \in 1..Len(ws) :
            \/ n # <<>> /\ ws[i] = n \o <<"%">>
            \/ /\ ws[i] = n /\ IsNumeral(n) /\ i < Len(ws)
               /\ ws[i + 1] \in {<<"p","e","r","c","e","n","t">>, <<"%">>}}

\* the amounts said as "<N> dollars off"
DollarAmounts(ws) ==
    {ws[i] : i \in {k \in 1..(Len(ws) - 2) :
                        /\ IsNumeral(ws[k])
                        /\ ws[k + 1] \in {<<"d","o","l","l","a","r","s">>, <<"d","o","l","l","a","r">>}
                        /\ ws[k + 2] = <<"o","f","f">>}}

\* the written numbers followed by percent, as numerals
WrittenAmounts(ws) ==
    {IF ws[i] = <<"t","e","n">> THEN <<"1","0">>
     ELSE IF ws[i] = <<"f","i","f","t","e","e","n">> THEN <<"1","5">> ELSE <<"2","0">> :
        i \in {k \in 1..(Len(ws) - 1) :
                    /\ ws[k] \in {<<"t","e","n">>, <<"f","i","f","t","e","e","n">>, <<"t","w","e","n","t","y">>}
                    /\ ws[k + 1] \in {<<"p","e","r","c","e","n","t">>, <<"%">>}}}

\* C17: the revision 2 pattern classifier tags the amount by the pattern
\* that matched: "<N>%" for "<N>%" or "<N> percent", "<N> dollars off" for
\* "<N> dollars off", and no amount when the transcript has no amount
\* pattern.
C17_AmountTagged ==
    (IsAnalysed /\ rev = 2) =>
        LET ws == Split(last.transcript)
            amount == last.out.discountAmount
        IN  /\ (PercentAmounts(ws) # {} /\ DollarAmounts(ws) = {}) =>
                    \E n \in PercentAmounts(ws) : amount = Val(n \o <<"%">>)
            /\ (DollarAmounts(ws) # {} /\ PercentAmounts(ws) = {}) =>
                    \E n \in DollarAmounts(ws) : amount = Val(n \o <<" ","d","o","l","l","a","r","s"," ","o","f","f">>)
            /\ (PercentAmounts(ws) = {} /\ DollarAmounts(ws) = {}
                    /\ WrittenAmounts(ws) = {}) => amount = JsNull

\* C18: for a transcript whose only amount is ten, fifteen or twenty
\* followed by percent, the revision 2 pattern classifier returns the
\* numeral with a percent sign: "10%", "15%" or "20%".
C18_WrittenNumberAmount ==
    (IsAnalysed /\ rev = 2) =>
        LET ws == Split(last.transcript)
        IN  (WrittenAmounts(ws) # {} /\ PercentAmounts(ws) = {}
                /\ DollarAmounts(ws) = {}) =>
                \E n \in WrittenAmounts(ws) :
                    last.out.discountAmount = Val(n \o <<"%">>)

----------------------------------------------------------------------------
(* Properties of upload-csv *)

IsUpload == last.op = "upload-csv" /\ last.file # <<>>

\* the rows of the file that have a short name or a phone with fewer than
\* 10 digits
BadRows(file) ==
    {i \in 1..Len(file) :
        Len(file[i].name) < 2 \/ Len(DigitsOf(file[i].phone)) < 10}

\* C15: when rows of the uploaded file fail validation, the response is the
\* one 400 response that lists exactly one error for each invalid row, in
\* row order, whatever the position of the invalid rows; an invalid row
\* never stops the validation of the rows after it and never gives a 500.
C15_RowErrorsCollected ==
    (IsUpload /\ BadRows(last.file) # {}) =>
        /\ last.status = 400
        /\ Len(last.errors) = Cardinality(BadRows(last.file))
        /\ \A i \in BadRows(last.file) :
                \E j \in 1..Len(last.errors) : last.errors[j].row = i
        /\ \A j, k \in 1..Len(last.errors) :
                j < k => last.errors[j].row < last.errors[k].row

C15_Witness ==
    /\ IsUpload
    /\ BadRows(last.file) = {1, 2}
    /\ last.errors[1].error = "Name must be at least 2 characters long"
    /\ last.errors[2].error = "Invalid phone number format"

\* the step is an upload-csv request answered with 200 and observed
UploadedStep ==
    /\ ca.pc = "idle"
    /\ last' # last
    /\ last'.op = "upload-csv"
    /\ last'.status = 200

\* what C21 requires of one step
UniqueStep ==
    /\ \A i, j \in DOMAIN db' : db'[i].phone = db'[j].phone => i = j
    /\ UploadedStep =>
        LET new == DOMAIN db' \ DOMAIN db
            had == {db[i].phone : i \in DOMAIN db}
            sent == {standardizePhoneNumber(last'.file[k].phone) :
                        k \in 1..Len(last'.file)}
        IN  /\ \A i \in DOMAIN db : i \in DOMAIN db' /\ db'[i] = db[i]
            /\ {db'[i].phone : i \in new} = sent \ had
            /\ last'.count = Cardinality(sent \ had)
            /\ last'.count = Cardinality(new)

\* C21: no two records share a phone; an uploaded row whose normalised
\* phone is already in the table, or earlier in the same file, is skipped:
\* every existing record keeps all its fields, one record is inserted for
\* each new phone, and the response counts only the inserted rows.
C21_DuplicatesSkipped == [][UniqueStep]_vars

C21_Witness ==
    /\ last.op = "upload-csv" /\ last.status = 200
    /\ Len(last.file) = 2
    /\ last.count = 0
    /\ \E i \in DOMAIN db :
        /\ db[i].phone = standardizePhoneNumber(last.file[1].phone)
        /\ db[i].callStatus = "completed"
        /\ db[i].phone # last.file[1].phone

\* what C29 requires of one step
ValidationStep ==
    LET new == DOMAIN db' \ DOMAIN db
    IN  /\ (/\ ca.pc = "idle"
             /\ last' # last
             /\ last'.op = "upload-csv"
             /\ last'.file # <<>>
             /\ BadRows(last'.file) # {}) =>
                /\ last'.status = 400
                /\ Len(last'.errors) >= 1
                /\ db' = db
                /\ nextId' = nextId
        /\ new # {} =>
                /\ \E file \in Files :
                        /\ BadRows(file) = {}
                        /\ {db'[i].phone : i \in new} \subseteq
                              {standardizePhoneNumber(file[k].phone) : k \in 1..Len(file)}
                /\ ca.pc = "idle" =>
                        /\ last'.op = "upload-csv"
                        /\ last'.status = 200
                        /\ BadRows(last'.file) = {}

\* C29: an upload with at least one invalid row is answered with 400 and
\* the error list and leaves the table as it was; records are inserted only
\* by an upload all of whose rows are valid.
C29_UploadAllOrNothing == [][ValidationStep]_vars

C29_Witness ==
    /\ IsUpload
    /\ last.status = 400
    /\ BadRows(last.file) # {}
    /\ \E k \in 1..Len(last.file) :
        /\ k \notin BadRows(last.file)
        /\ \A i \in DOMAIN db :
                db[i].phone # standardizePhoneNumber(last.file[k].phone)

\* what C22 requires of one step
RemovalStep ==
    /\ (\E i \in DOMAIN db : i \notin DOMAIN db') =>
        /\ db' = <<>>
        /\ ca' = ca /\ nextId' = nextId
        /\ ca.pc = "idle" => (last'.op = "clear-database" /\ last'.status = 200)
    /\ (last'.op = "clear-database" /\ last'.status = 200) => db' = <<>>

\* C22: a step that removes a record is a clear-database request, and it
\* removes every record; upload-csv, call-all and every branch of the
\* call-handler leave each record in the table.
C22_OnlyClearRemoves == [][RemovalStep]_vars

C22_Witness ==
    /\ last.op = "clear-database" /\ last.status = 200
    /\ db = <<>>
    /\ nextId = 3

\* pending -> calling -> in-progress -> completed
StatusRank(status) ==
    CASE status = "pending" -> 1
      [] status = "calling" -> 2
      [] status = "in-progress" -> 3
      [] status = "completed" -> 4
      [] OTHER -> 0

\* what C23 requires of one step
AdvanceStep ==
    \A i \in DOMAIN db \cap DOMAIN db' :
        /\ StatusRank(db'[i].callStatus) >= 1
        /\ StatusRank(db'[i].callStatus) >= StatusRank(db[i].callStatus)

\* C23: the callStatus of a record is one of pending, calling, in-progress,
\* completed, and no step moves it backwards along that order.
C23_StatusAdvances == [][AdvanceStep]_vars

\* C20: every record of the table has a canonical phone: the normaliser
\* returns it unchanged and it is "+" followed by at least 11 digits.
C20_StoredPhonesCanonical ==
    \A i \in DOMAIN db :
        /\ standardizePhoneNumber(db[i].phone) = db[i].phone
        /\ PlusElevenDigits(db[i].phone)

C20_Witness ==
    /\ Cardinality(DOMAIN db) = 2
    /\ \E i \in DOMAIN db :
        /\ db[i].phone = PhoneA
        /\ db[i].callStatus = "completed"
    /\ \E i \in DOMAIN db : db[i].callStatus = "calling"

----------------------------------------------------------------------------
(* Properties of the call-handler *)

IsTurn == last.op = "call-handler"

\* the request's transcript is absent or empty
Silent == Falsy(last.req.SpeechResult)

\* a spoken line followed by Hangup, and nothing else
SaysThenHangsUp(doc, line) ==
    /\ Len(doc) = 2
    /\ doc[1].verb \in {"Say", "Play"}
    /\ doc[1].text = line
    /\ doc[2].verb = "Hangup"

\* the ids of the records whose phone is the request's called number
Called ==
    IF last.req.To = Undefined THEN {}
    ELSE {i \in DOMAIN db : db[i].phone = standardizePhoneNumber(Get(last.req.To))}

\* the service's reply is a classification failure
ClassificationFailed ==
    \/ last.reply.kind \in {"network-error", "malformed-json", "no-function-call"}
    \/ /\ last.reply.kind = "result"
       /\ \/ last.reply.args.hasDiscount = Undefined
          \/ last.reply.args.nextResponse = Undefined
          \/ last.reply.args.shouldEndCall = Undefined

\* C1: every invocation of the call-handler (revisions 2 and 3) sends an
\* instruction document, and when a step of the turn threw, that document
\* is the spoken apology followed by Hangup.
C1_AlwaysResponds ==
    (IsTurn /\ rev \in {2, 3}) =>
        /\ Sent(last.resp)
        /\ (last.threw # "no" => SaysThenHangsUp(last.resp, SorryTechnical))

\* C2: on the first turn of a call (no transcript, counter 0) the response
\* holds a listening window and no Hangup, whatever the classifier returns.
C2_FirstTurnListens ==
    (IsTurn /\ last.req.SpeechResult = Undefined /\ numAttemptsOf(last.req) = 0
        /\ last.req.To # Undefined /\ last.threw = "no") =>
        /\ HasGather(last.resp)
        /\ ~HasHangup(last.resp)

\* C3: an empty transcript with the retry counter at 2 or more is answered
\* with the apology and Hangup, without a listening window and without
\* invoking the classifier.
C3_ExhaustedRetriesHangUp ==
    (IsTurn /\ rev = 3 /\ last.req.SpeechResult = Val(<<>>)
        /\ numAttemptsOf(last.req) >= MaxAttempts /\ last.threw = "no") =>
        /\ SaysThenHangsUp(last.resp, SorryTrouble)
        /\ last.reply = NotCalled

\* C4: a turn with a non-empty transcript whose classification says
\* shouldEndCall, for a number that has a record, is answered with the
\* closing audio and Hangup, and the record then holds the classified
\* fields, a lastCalled time and callStatus "completed".
C4_TerminalTurnPersists ==
    (IsTurn /\ rev \in {2, 3} /\ ~Silent /\ last.threw = "no"
        /\ last.reply.kind = "result" /\ Truthy(last.reply.args.shouldEndCall)
        /\ Called # {}) =>
        /\ SaysThenHangsUp(last.resp, FixedAudio)
        /\ \A i \in Called :
            /\ db[i].callStatus = "completed"
            /\ db[i].lastCalled \in {Val(t) : t \in 1..now}
            /\ IsVal(last.reply.args.hasDiscount) =>
                   db[i].hasDiscount = Get(last.reply.args.hasDiscount)
            /\ IsVal(last.reply.args.discountAmount) =>
                   db[i].discountAmount = last.reply.args.discountAmount
            /\ db[i].discountDetails \in
                   {last.req.SpeechResult, last.reply.args.discountDetails}
            /\ IsVal(last.reply.args.availabilityInfo) =>
                   db[i].availabilityInfo = last.reply.args.availabilityInfo
            /\ IsVal(last.reply.args.eligibilityInfo) =>
                   db[i].eligibilityInfo = last.reply.args.eligibilityInfo

\* C5 as stated: when the called number matches no record, the handler
\* (revisions 1 and 2, which look the record up) answers with the generic
\* thank-you and Hangup, writes nothing and sends no error response, on
\* every turn.
C5_NotFoundThanks ==
    (IsTurn /\ rev \in {1, 2} /\ last.req.To # Undefined /\ Called = {}) =>
        /\ SaysThenHangsUp(last.resp, ThanksGoodbye)
        /\ last.writes = <<>>

\* C5 amended: when the called number matches no record, the handler
\* (revisions 1 and 2) always answers with one spoken line followed by
\* Hangup and writes nothing: the generic thank-you when the lookup is
\* reached and succeeds; the "didn't catch that" line in revision 1 when
\* the transcript is empty, where the lookup is not reached; the
\* technical-difficulty apology when the lookup throws.
C5_NotFoundHangsUp ==
    (IsTurn /\ rev \in {1, 2} /\ last.req.To # Undefined /\ Called = {}) =>
        /\ last.writes = <<>>
        /\ IF rev = 1 /\ Silent
           THEN SaysThenHangsUp(last.resp, SorryThanks)
           ELSE IF last.threw = "no"
                THEN SaysThenHangsUp(last.resp, ThanksGoodbye)
                ELSE SaysThenHangsUp(last.resp, SorryTechnical)

C5_Witness ==
    /\ IsTurn /\ rev = 2 /\ last.req.To # Undefined /\ Called = {}
    /\ DOMAIN db # {}
    /\ last.threw = "no"
    /\ SaysThenHangsUp(last.resp, ThanksGoodbye)

\* C6: a failed classification (network error, malformed JSON, no function
\* call, or a required field missing from the parsed result) takes the
\* turn to the handler's error path.
C6_FailurePropagates ==
    (IsTurn /\ rev \in {2, 3} /\ ClassificationFailed) => last.threw # "no"

\* C10: within one call the handler re-opens the listening window after an
\* empty transcript at most MaxAttempts times in a row.
C10_RetryBounded ==
    (IsTurn /\ rev \in {2, 3}) => last.silent <= MaxAttempts

\* the step is a call-handler turn that ends the call: the classifier said
\* shouldEndCall and the response hangs up
TerminalTurn ==
    \E to \in Tos, speech \in Speeches, n \in BodyAttempts :
        \E r \in CallHandler(db, Request(to, speech, n), now) :
            /\ Truthy(r.reply.args.shouldEndCall)
            /\ HasHangup(r.resp)
            /\ db' = ApplyWrites(db, r.writes)

\* what C11 requires of one step
FrameStep ==
    rev \in {2, 3} =>
        \A i \in DOMAIN db \cap DOMAIN db' :
            LET statusOnly == [db[i] EXCEPT !.callStatus = db'[i].callStatus]
            IN  /\ db'[i] # statusOnly => TerminalTurn
                /\ db'[i].callStatus \notin {db[i].callStatus, "in-progress", "calling"}
                        => TerminalTurn
                /\ (ca.pc # "idle" /\ ca'.pc # ca.pc) => db'[i] = statusOnly

\* C11: in revisions 2 and 3 a step that changes any field of an existing
\* record other than callStatus (hasDiscount, discountAmount and
\* discountDetails among them) is a call-handler turn that ends the call;
\* every other turn changes at most callStatus, to "in-progress", and
\* call-all changes only callStatus, to "calling".
C11_DiscountFieldsFrame == [][FrameStep]_vars

C11_Witness ==
    /\ IsTurn /\ rev = 2
    /\ ~Truthy(last.reply.args.shouldEndCall)
    /\ last.writes # <<>>
    /\ \E i \in Called :
        /\ db[i].callStatus = "in-progress"
        /\ db[i].discountDetails # JsNull

\* C24: on the first turn of a call (no transcript, counter 0) to a number
\* that has a record, the first thing the handler writes is callStatus
\* "in-progress" on that record and no other field, before the response
\* is computed.
C24_FirstTurnInProgress ==
    (IsTurn /\ rev \in {2, 3} /\ last.req.SpeechResult = Undefined
        /\ numAttemptsOf(last.req) = 0 /\ Called # {} /\ last.threw = "no") =>
        /\ Len(last.writes) >= 1
        /\ last.writes[1].id \in Called
        /\ last.writes[1].data.callStatus = Val("in-progress")
        /\ \A f \in DOMAIN last.writes[1].data \ {"callStatus"} :
                last.writes[1].data[f] = Undefined

\* the step is a turn of the call whose previous response opened a
\* listening window, and the turn's transcript is absent or empty
LaterEmptyTurn ==
    /\ last.op = "call-handler"
    /\ HasGather(last.resp)
    /\ last' # last
    /\ last'.op = "call-handler"
    /\ last'.req.To = last.req.To
    /\ Falsy(last'.req.SpeechResult)

\* what C25 requires of one step
RepromptStep ==
    (rev = 3 /\ LaterEmptyTurn /\ numAttemptsOf(last'.req) < MaxAttempts
        /\ last'.threw = "no") =>
        /\ last'.resp =
              <<Gather(numAttemptsOf(last'.req) + 1, <<Play(SorryRepeat)>>)>>
        /\ ~HasHangup(last'.resp)
        /\ last'.writes = <<>>
        /\ db' = db

\* C25: an empty transcript on a later turn with the retry counter n below
\* MaxAttempts is answered with the please-repeat prompt inside a listening
\* window whose action URL carries n + 1, without Hangup and without any
\* write to the record.
C25_EmptyTurnReprompts == [][RepromptStep]_vars

\* the counter a URL carries; a URL without one reads as 0
EmbeddedCounter(doc) ==
    IF GatherCounter(doc) = NoCounter THEN 0 ELSE GatherCounter(doc)

\* what C26 requires of one step: a turn that the provider posts to the
\* action URL of the previous response's listening window (its form body
\* has the provider's fields only)
CounterStep ==
    (/\ rev = 3
     /\ last.op = "call-handler"
     /\ HasGather(last.resp)
     /\ last' # last
     /\ last'.op = "call-handler"
     /\ last'.req.To = last.req.To
     /\ last'.query = GatherCounter(last.resp)
     /\ last'.req.numAttempts = Undefined) =>
        /\ numAttemptsOf(last'.req) = EmbeddedCounter(last.resp)
        /\ (Falsy(last.req.SpeechResult) /\ Falsy(last'.req.SpeechResult)) =>
                numAttemptsOf(last'.req) > numAttemptsOf(last.req)

\* C26: the retry counter the handler reads on a turn equals the counter
\* that the previous turn embedded in the action URL of its listening
\* window, and it grows strictly over consecutive empty turns of one call.
C26_CounterCarried == [][CounterStep]_vars

\* a turn of the reasoning-service handlers with a non-empty transcript
NonEmptyTurn == IsTurn /\ rev \in {2, 3} /\ ~Silent

\* the classifier answered, and with shouldEndCall = true
EndsCall == last.reply.kind = "result" /\ last.reply.args.shouldEndCall = Val(TRUE)

\* the response is one listening window pointing back at call-handler with
\* a prompt inside
ListensAgain ==
    /\ Len(last.resp) = 1
    /\ last.resp[1].verb = "Gather"
    /\ Len(last.resp[1].nested) = 1
    /\ last.resp[1].nested[1].verb \in {"Say", "Play"}

\* the turn wrote callStatus "completed" to no record
NotCompleted ==
    \A k \in 1..Len(last.writes) :
        last.writes[k].data.callStatus # Val("completed")

\* what C27 says of a turn
HangupIffEndCall ==
    /\ (HasHangup(last.resp) /\ ~HasGather(last.resp)) <=> EndsCall
    /\ (last.reply.kind = "result" /\ last.reply.args.shouldEndCall = Val(FALSE)) =>
            (ListensAgain /\ NotCompleted)

PatternKeepsTranscript ==
    \A t \in SampleTranscripts :
        analyzeSpeechResponseRev2(t).discountDetails = Val(t)

\* the last request was a turn that closed the call of a record, and no
\* call-all is in flight
CompletedTurn ==
    /\ IsTurn /\ rev = 2 /\ ca.pc = "idle"
    /\ last.threw = "no"
    /\ last.reply.kind = "result" /\ Truthy(last.reply.args.shouldEndCall)
    /\ Called # {}

\* C28: the discountDetails stored by the turn that completes a call is the
\* transcript that turn passed to handleCallResponse (the request's
\* SpeechResult, "" when absent), whatever details the reasoning service
\* returned; the pattern-matching classifier returns its transcript as
\* discountDetails too.
C28_DetailsAreTranscript ==
    /\ PatternKeepsTranscript
    /\ CompletedTurn =>
        \A i \in Called :
            /\ db[i].callStatus = "completed"
            /\ db[i].discountDetails = Val(OrEmpty(last.req.SpeechResult))

C28_Witness ==
    /\ CompletedTurn
    /\ ~Silent
    /\ IsVal(last.reply.args.discountDetails)
    /\ last.reply.args.discountDetails # last.req.SpeechResult
    /\ \E i \in Called : db[i].discountDetails = last.req.SpeechResult

\* C19: every response of the revision 1 call-handler holds Hangup and no
\* listening window, whatever the transcript, whether or not the record
\* exists and whether or not the store fails; so no request of a call
\* follows another.
C19_PatternHandlerHangsUp ==
    (IsTurn /\ rev = 1) =>
        /\ Sent(last.resp)
        /\ HasHangup(last.resp)
        /\ ~HasGather(last.resp)
        /\ last.query = NoCounter
        /\ last.silent = 0

C19_Witness ==
    /\ IsTurn /\ rev = 1
    /\ last.req.SpeechResult = Val(TYes)
    /\ SaysThenHangsUp(last.resp, ConfirmLine)
    /\ \E i \in Called : db[i].callStatus = "completed"

----------------------------------------------------------------------------
(* Properties of call-all *)

IsBatch == last.op = "call-all" /\ last.status = 200

Rejected(results) == {i \in 1..Len(results) : results[i].status = "rejected"}

\* C7: a batch over N records in which M placements fail reports
\* successful = N - M, failed = M and total = N.
C7_BatchCounts ==
    IsBatch =>
        LET N == Len(last.businesses)
            M == Cardinality(Rejected(last.results))
        IN  /\ last.successful = N - M
            /\ last.failed = M
            /\ last.total = N
            /\ last.successful + last.failed = last.total

C7_Witness ==
    /\ IsBatch
    /\ Len(last.businesses) = 2
    /\ Cardinality(Rejected(last.results)) = 1

\* exactly one placement for each record read, to that record's phone
OnePerRecord(businesses, results) ==
    /\ \A i \in 1..Len(businesses) :
        Cardinality({j \in 1..Len(results) : results[j].to = businesses[i].phone}) = 1
    /\ Len(results) = Len(businesses)

\* C8: call-all attempts exactly one placement for every record it read,
\* whatever the other placements do; it responds only when every placement
\* has settled; and an error response is sent only before any placement
\* was started, never on account of a placement failing.
C8_PlacementsIndependent ==
    /\ ca.pc = "placing" => OnePerRecord(ca.businesses, ca.results)
    /\ IsBatch =>
        /\ OnePerRecord(last.businesses, last.results)
        /\ \A i \in 1..Len(last.results) :
                last.results[i].status \in {"fulfilled", "rejected"}
    /\ (last.op = "call-all" /\ last.status = 500) => last.results = <<>>

C8_Witness ==
    /\ IsBatch
    /\ Len(last.businesses) = 2
    /\ last.results[1].status = "rejected"
    /\ last.results[2].status = "fulfilled"

\* C9: in revisions 2 and 3, when call-all responds, every record it read
\* that is still in the table and that no webhook has written since holds
\* callStatus "calling"; the records whose placement failed among them.
C9_FailedPlacementStaysCalling ==
    (IsBatch /\ rev \in {2, 3}) =>
        \A i \in 1..Len(last.businesses) :
            LET id == last.businesses[i].id
            IN  (id \in DOMAIN db /\ id \notin last.touched) =>
                    db[id].callStatus = "calling"

C9_Witness ==
    /\ IsBatch /\ rev \in {2, 3}
    /\ \E i \in 1..Len(last.businesses) :
        /\ last.results[i].status = "rejected"
        /\ last.businesses[i].id \in DOMAIN db
        /\ last.businesses[i].id \notin last.touched
        /\ db[last.businesses[i].id].callStatus = "calling"
    /\ \E i \in 1..Len(last.businesses) : last.results[i].status = "fulfilled"

\* what C30 requires of one step of the routers that write the status
MarkFirstStep ==
    rev \in {2, 3} =>
        \* once a placement of the invocation exists, no step writes "calling"
        /\ ca.results # <<>> =>
                \A i \in DOMAIN db \cap DOMAIN db' :
                    db'[i].callStatus = "calling" => db[i].callStatus = "calling"
        \* the placements start in the step that completes the status write
        /\ (ca.results = <<>> /\ ca'.results # <<>>) =>
                /\ ca.pc = "read"
                /\ \A k \in 1..Len(ca'.businesses) :
                        ca'.businesses[k].id \in DOMAIN db' =>
                            db'[ca'.businesses[k].id].callStatus = "calling"
        \* a failed read or status write: error response, nothing placed
        /\ (last' # last /\ last'.op = "call-all" /\ last'.status = 500) =>
                /\ last'.results = <<>>
                /\ ca'.results = <<>>
                /\ ca'.pc = "idle"
                /\ db' = db

\* C30: call-all writes callStatus "calling" before it starts any
\* placement, so that write never replaces a status written by a webhook
\* of a call of the same invocation; when reading the records or the
\* status write fails, call-all answers with an error and places no call.
C30_MarkBeforePlacements == [][MarkFirstStep]_vars

C30_Witness ==
    /\ rev \in {2, 3}
    /\ last.op = "call-all" /\ last.status = 200
    /\ last.results # <<>>
    /\ \E i \in last.touched \cap DOMAIN db :
            db[i].callStatus \in {"in-progress", "completed"}

====
